---- MODULE Spec2Model ----
(***************************************************************************)
(* A model of the ingestion pipeline of mt5_database_builder.py:           *)
(* MT5DatabaseBuilder.save_price_data (row sanitization and the INSERT OR  *)
(* IGNORE write with its test insert, batch insert and record-by-record    *)
(* fallback), the sqlite3 connection it writes through, and                *)
(* download_symbol_data, which feeds it one timeframe at a time.           *)
(*                                                                         *)
(* Values read from a DataFrame cell are modelled as records [k, v]: k is  *)
(* the kind of the cell ("num" a finite number, "huge" a finite number     *)
(* of 2^63 or more, "inf"/"ninf" the infinities, "nan" NaN/None/NaT,       *)
(* "str" a non-numeric object, "absent" no such column) and v the number   *)
(* when k = "num".  MetaTrader5 delivers time and the volumes as integer   *)
(* fields, so the numbers of the model are integers.                       *)
(***************************************************************************)
EXTENDS Integers, Sequences, FiniteSets, TLC

VARIABLES conn, last, tasks, stats, run

vars == <<conn, last, tasks, stats, run>>

---------------------------------------------------------------------------
(* Bounds of the model *)

MaxTime == 3
MaxBatch == 3

---------------------------------------------------------------------------
(* Cell values *)

Num(n) == [k |-> "num", v |-> n]
Huge == [k |-> "huge", v |-> 0]
Inf == [k |-> "inf", v |-> 0]
NegInf == [k |-> "ninf", v |-> 0]
NaN == [k |-> "nan", v |-> 0]
Str == [k |-> "str", v |-> 0]
Absent == [k |-> "absent", v |-> 0]

\* `field in row`
InRow(x) == x.k # "absent"

\* pd.isna(value)
IsNa(x) == x.k = "nan"

\* hasattr(value, '__le__') with a number: comparing a str with 0 raises TypeError
Comparable(x) == x.k \in {"num", "huge", "inf", "ninf"}

\* value <= 0, for a comparable value
LeZero(x) == \/ x.k = "ninf"
             \/ x.k = "num" /\ x.v <= 0

\* int(float(value)): [err, val]; float('abc') raises ValueError, int(inf) OverflowError
IntOfFloat(x) ==
    CASE x.k = "num" -> [err |-> "none", val |-> Num(x.v)]
      [] x.k = "huge" -> [err |-> "none", val |-> Huge]
      [] x.k \in {"inf", "ninf"} -> [err |-> "OverflowError", val |-> Num(0)]
      [] x.k = "nan" -> [err |-> "ValueError", val |-> Num(0)]
      [] OTHER -> [err |-> "ValueError", val |-> Num(0)]

\* float(value) of a value that passed the checks before it
FloatOf(x) ==
    CASE x.k \in {"num", "huge", "inf", "ninf"} -> [err |-> "none", val |-> x]
      [] OTHER -> [err |-> "ValueError", val |-> Num(0)]

\* int(row['time'].timestamp()) or int(row['time'])
TimeOf(x) ==
    CASE x.k = "num" -> [err |-> "none", val |-> Num(x.v)]
      [] x.k = "huge" -> [err |-> "none", val |-> Huge]
      [] x.k \in {"inf", "ninf"} -> [err |-> "OverflowError", val |-> Num(0)]
      [] OTHER -> [err |-> "ValueError", val |-> Num(0)]

---------------------------------------------------------------------------
(* Strings are sequences of characters; s[:n] *)

SymbolMaxLen == 50
TimeframeMaxLen == 10

Truncate(s, n) == IF Len(s) <= n THEN s ELSE SubSeq(s, 1, n)

EURUSD == <<"E", "U", "R", "U", "S", "D">>
US30 == <<"U", "S", "3", "0">>
H1 == <<"H", "1">>
M1 == <<"M", "1">>

---------------------------------------------------------------------------
(* save_price_data, lines 404-497: one row of the DataFrame *)

required_fields == <<"open", "high", "low", "close">>

\* The check of one OHLC field (lines 423-439): "ok" or the reason of the break
CheckField(row, field) ==
    LET value == row[field] IN
    IF ~InRow(value) THEN "missing"
    ELSE IF IsNa(value) THEN "invalid"
    ELSE IF ~Comparable(value) THEN "TypeError"
    ELSE IF LeZero(value) THEN "invalid"
    ELSE IF FloatOf(value).err # "none" THEN "conversion"
    ELSE "ok"

\* The for/else over required_fields: the first field that fails, 0 when none does
FirstBadField(row) ==
    IF \E i \in 1..Len(required_fields) : CheckField(row, required_fields[i]) # "ok"
    THEN CHOOSE i \in 1..Len(required_fields) :
            /\ CheckField(row, required_fields[i]) # "ok"
            /\ \A j \in 1..(i - 1) : CheckField(row, required_fields[j]) = "ok"
    ELSE 0

\* An optional integer field (lines 443-469): 0 when absent, NaN or unparseable;
\* an OverflowError is not among the exceptions caught there
OptionalInt(row, field) ==
    LET value == row[field] IN
    IF InRow(value) /\ ~IsNa(value)
    THEN LET c == IntOfFloat(value) IN
         CASE c.err = "none" -> [err |-> "none", val |-> c.val]
           [] c.err = "ValueError" -> [err |-> "none", val |-> Num(0)]
           [] OTHER -> [err |-> c.err, val |-> Num(0)]
    ELSE [err |-> "none", val |-> Num(0)]

\* A tuple whose volume is made of the row's volume field
RecordWithRawVolume(symbol, timeframe, row) ==
    [symbol |-> Truncate(symbol, SymbolMaxLen),
     timeframe |-> Truncate(timeframe, TimeframeMaxLen),
     time |-> TimeOf(row.time).val,
     open |-> FloatOf(row.open).val,
     high |-> FloatOf(row.high).val,
     low |-> FloatOf(row.low).val,
     close |-> FloatOf(row.close).val,
     volume |-> OptionalInt(row, "volume").val,
     tick_volume |-> OptionalInt(row, "tick_volume").val,
     spread |-> OptionalInt(row, "spread").val,
     real_volume |-> OptionalInt(row, "real_volume").val]

\* The tuple appended to data_to_insert (lines 471-483): volume_val is made of
\* row['tick_volume'] (lines 443-453), and row['volume'] is never read
Record(symbol, timeframe, row) ==
    [symbol |-> Truncate(symbol, SymbolMaxLen),
     timeframe |-> Truncate(timeframe, TimeframeMaxLen),
     time |-> TimeOf(row.time).val,
     open |-> FloatOf(row.open).val,
     high |-> FloatOf(row.high).val,
     low |-> FloatOf(row.low).val,
     close |-> FloatOf(row.close).val,
     volume |-> OptionalInt(row, "tick_volume").val,
     tick_volume |-> OptionalInt(row, "tick_volume").val,
     spread |-> OptionalInt(row, "spread").val,
     real_volume |-> OptionalInt(row, "real_volume").val]

\* The body of the row loop: [ok, reason, rec]; every failure counts the row as
\* problematic and continues with the next row
SanitizeRow(symbol, timeframe, row) ==
    LET none == Record(symbol, timeframe, row) IN
    IF ~InRow(row.time) \/ IsNa(row.time)
    THEN [ok |-> FALSE, reason |-> "MissingTimestamp", rec |-> none]
    ELSE IF TimeOf(row.time).err # "none"
    THEN [ok |-> FALSE, reason |-> "row_error", rec |-> none]
    ELSE IF FirstBadField(row) # 0
    THEN [ok |-> FALSE, reason |-> "InvalidOHLC", rec |-> none]
    ELSE IF \E f \in {"tick_volume", "spread", "real_volume"} : OptionalInt(row, f).err # "none"
    THEN [ok |-> FALSE, reason |-> "row_error", rec |-> none]
    ELSE [ok |-> TRUE, reason |-> "none", rec |-> none]

\* data_to_insert after the loop over df.iterrows()
RECURSIVE DataToInsert(_, _, _)
DataToInsert(symbol, timeframe, df) ==
    IF df = <<>> THEN <<>>
    ELSE LET s == SanitizeRow(symbol, timeframe, Head(df)) IN
         (IF s.ok THEN <<s.rec>> ELSE <<>>) \o DataToInsert(symbol, timeframe, Tail(df))

---------------------------------------------------------------------------
(* The sqlite3 connection shared by every caller (setup_database, line 137):  *)
(* price_data and download_stats in insertion order (the AUTOINCREMENT id is  *)
(* the position), and how many rows of each are committed.  The rows past     *)
(* that are in the connection's open transaction.  symbol_info (line 161) is  *)
(* the set of its rows, one per symbol (PRIMARY KEY).                         *)

EmptyConn == [price_data |-> <<>>, committed |-> 0,
              download_stats |-> <<>>, stats_committed |-> 0,
              symbol_info |-> {}]

\* UNIQUE(symbol, timeframe, time), line 156
SameKey(a, b) == /\ a.symbol = b.symbol
                 /\ a.timeframe = b.timeframe
                 /\ a.time = b.time

\* A table without the UNIQUE constraint: every INSERT appends a row
InsertAlways(table, rec) == [table |-> Append(table, rec), rowcount |-> 1, err |-> "none"]

\* INSERT OR REPLACE: the stored row of the key is deleted and the new one appended
InsertOrReplace(table, rec) ==
    [table |-> Append(SelectSeq(table, LAMBDA r : ~SameKey(r, rec)), rec),
     rowcount |-> 1, err |-> "none"]

\* A plain INSERT: the UNIQUE constraint raises sqlite3.IntegrityError
InsertPlain(table, rec) ==
    IF \E j \in 1..Len(table) : SameKey(table[j], rec)
    THEN [table |-> table, rowcount |-> -1, err |-> "sqlite"]
    ELSE [table |-> Append(table, rec), rowcount |-> 1, err |-> "none"]

\* INSERT OR IGNORE INTO price_data ... (lines 509-513, 526-530, 545-549)
InsertOrIgnore(table, rec) ==
    IF \E j \in 1..Len(table) : SameKey(table[j], rec)
    THEN [table |-> table, rowcount |-> 0, err |-> "none"]
    ELSE [table |-> Append(table, rec), rowcount |-> 1, err |-> "none"]

\* connection.commit()
Commit(c) == [c EXCEPT !.committed = Len(c.price_data),
                       !.stats_committed = Len(c.download_stats)]

\* Binding a Python int of 2^63 or more raises OverflowError, which is no sqlite3.Error
HasHugeInt(rec) ==
    \E f \in {"time", "volume", "tick_volume", "spread", "real_volume"} : rec[f].k = "huge"

---------------------------------------------------------------------------
(* Backend failures of one save_price_data call: the environment's choice.    *)
(* failAt is the position in data_to_insert whose INSERT raises sqlite3.Error *)
(* (0: none), every time ("perm") or the first time only ("flaky"); commit    *)
(* and stats make the first commit, or the statistics insert, raise it.       *)

NoFault == [failAt |-> 0, mode |-> "none", commit |-> FALSE, stats |-> FALSE]

FaultPlans ==
    {NoFault}
    \cup {[failAt |-> p, mode |-> m, commit |-> FALSE, stats |-> FALSE] :
            p \in 1..MaxBatch, m \in {"perm", "flaky"}}
    \cup {[NoFault EXCEPT !.commit = TRUE], [NoFault EXCEPT !.stats = TRUE]}

---------------------------------------------------------------------------
(* save_price_data as a step function on (connection, frame): one step per    *)
(* row sent to the connection, the commit with the step before it.            *)

NewFrame(symbol, timeframe, df, plan) ==
    [pc |-> "begin", symbol |-> symbol, timeframe |-> timeframe, df |-> df,
     plan |-> plan, data |-> <<>>, i |-> 0, rowcount |-> 0, rows_inserted |-> 0,
     fired |-> FALSE, ret |-> 0, raised |-> FALSE, log |-> {}]

Idle == [NewFrame(<<>>, <<>>, <<>>, NoFault) EXCEPT !.pc = "idle"]

\* return n
Return(f, n) == [f EXCEPT !.pc = "done", !.ret = n]

\* An exception that leaves save_price_data
Propagate(f) == [f EXCEPT !.pc = "done", !.raised = TRUE]

\* except Exception as e: ... return 0 (lines 583-588)
GeneralHandler(f) == Return([f EXCEPT !.log = @ \cup {"general_error"}], 0)

\* cursor.execute of data_to_insert[pos]: [err, table, rowcount, fired]
Execute(c, f, pos) ==
    LET rec == f.data[pos]
        ins == InsertOrIgnore(c.price_data, rec)
    IN  IF HasHugeInt(rec)
        THEN [err |-> "other", table |-> c.price_data, rowcount |-> -1, fired |-> f.fired]
        ELSE IF /\ f.plan.failAt = pos
                /\ \/ f.plan.mode = "perm"
                   \/ f.plan.mode = "flaky" /\ ~f.fired
        THEN [err |-> "sqlite", table |-> c.price_data, rowcount |-> -1, fired |-> TRUE]
        ELSE [err |-> ins.err, table |-> ins.table, rowcount |-> ins.rowcount, fired |-> f.fired]

\* Lines 400-503: the rows are prepared; nothing to insert returns 0
StepBegin(c, f) ==
    LET data == DataToInsert(f.symbol, f.timeframe, f.df) IN
    [conn |-> c,
     f |-> IF data = <<>> THEN Return(f, 0)
           ELSE [f EXCEPT !.pc = "test", !.data = data]]

\* Lines 505-521: the test insert of data_to_insert[0]
StepTest(c, f) ==
    LET x == Execute(c, f, 1) IN
    CASE x.err = "none" ->
            [conn |-> [c EXCEPT !.price_data = x.table],
             f |-> [f EXCEPT !.pc = "batch", !.i = 2, !.rowcount = 0, !.fired = x.fired]]
      [] x.err = "sqlite" ->
            [conn |-> c, f |-> Return([f EXCEPT !.log = @ \cup {"test_error"}, !.fired = x.fired], 0)]
      [] OTHER -> [conn |-> c, f |-> GeneralHandler(f)]

\* cursor.rowcount alone
RowcountOnly(f) == f.rowcount

\* rows_inserted = cursor.rowcount + (1 if len(data_to_insert) > 0 else 0), line 532
BatchCount(f) == f.rowcount + (IF Len(f.data) > 0 THEN 1 ELSE 0)

\* except sqlite3.Error as db_error: start of the record-by-record loop (537-543)
ToFallback(f) == [f EXCEPT !.pc = "fallback", !.i = 2, !.rows_inserted = 0,
                           !.log = @ \cup {"batch_error"}]

\* Lines 524-533: executemany over data_to_insert[1:], one row per step, then
\* the count and the commit
StepBatch(c, f) ==
    IF f.i <= Len(f.data)
    THEN LET x == Execute(c, f, f.i) IN
         CASE x.err = "none" ->
                 [conn |-> [c EXCEPT !.price_data = x.table],
                  f |-> [f EXCEPT !.i = @ + 1, !.rowcount = @ + x.rowcount]]
           [] x.err = "sqlite" -> [conn |-> c, f |-> ToFallback([f EXCEPT !.fired = x.fired])]
           [] OTHER -> [conn |-> c, f |-> GeneralHandler(f)]
    ELSE IF f.plan.commit
    THEN [conn |-> c, f |-> ToFallback([f EXCEPT !.rows_inserted = BatchCount(f)])]
    ELSE [conn |-> Commit(c),
          f |-> [f EXCEPT !.pc = "stats", !.rows_inserted = BatchCount(f),
                          !.log = @ \cup {"batch_completed"}]]

\* except sqlite3.Error as single_error: ... break (lines 551-554)
SingleError(f) == [f EXCEPT !.pc = "fallback_end", !.log = @ \cup {"single_error"}]

\* Lines 543-554: one record of the fallback loop
StepFallback(c, f) ==
    IF f.i <= Len(f.data)
    THEN LET x == Execute(c, f, f.i) IN
         CASE x.err = "none" ->
                 [conn |-> [c EXCEPT !.price_data = x.table],
                  f |-> [f EXCEPT !.i = @ + 1, !.rows_inserted = @ + x.rowcount]]
           [] x.err = "sqlite" -> [conn |-> c, f |-> SingleError([f EXCEPT !.fired = x.fired])]
           [] OTHER -> [conn |-> c, f |-> GeneralHandler(f)]
    ELSE [conn |-> c, f |-> [f EXCEPT !.pc = "fallback_end"]]

\* Lines 556-560: commit and count the test record, or return 0
StepFallbackEnd(c, f) ==
    IF f.rows_inserted > 0
    THEN IF f.plan.commit
         THEN [conn |-> c, f |-> GeneralHandler(f)]
         ELSE [conn |-> Commit(c),
               f |-> [f EXCEPT !.pc = "stats", !.rows_inserted = @ + 1]]
    ELSE [conn |-> c, f |-> Return(f, 0)]

\* The download_stats row of lines 565-576
StatRow(f) ==
    [symbol |-> f.symbol, timeframe |-> f.timeframe, bars_count |-> Len(f.df),
     first_date |-> f.df[1].time, last_date |-> f.df[Len(f.df)].time, success |-> TRUE]

\* Lines 562-581: the statistics row, whose failure is only logged, and the return
StepStats(c, f) ==
    IF Len(f.df) > 0 /\ f.rows_inserted > 0
    THEN IF f.plan.stats
         THEN [conn |-> c,
               f |-> Return([f EXCEPT !.log = @ \cup {"stats_warning"}], f.rows_inserted)]
         ELSE [conn |-> Commit([c EXCEPT !.download_stats = Append(@, StatRow(f))]),
               f |-> Return(f, f.rows_inserted)]
    ELSE [conn |-> c, f |-> Return(f, f.rows_inserted)]

\* One step of save_price_data
Step(c, f) ==
    CASE f.pc = "begin" -> StepBegin(c, f)
      [] f.pc = "test" -> StepTest(c, f)
      [] f.pc = "batch" -> StepBatch(c, f)
      [] f.pc = "fallback" -> StepFallback(c, f)
      [] f.pc = "fallback_end" -> StepFallbackEnd(c, f)
      [] f.pc = "stats" -> StepStats(c, f)
      [] OTHER -> [conn |-> c, f |-> f]

\* A call that runs with no other caller of the connection in between
RECURSIVE RunToEnd(_)
RunToEnd(s) ==
    IF s.f.pc \in {"done", "idle"} THEN s ELSE RunToEnd(Step(s.conn, s.f))

\* save_price_data(symbol, timeframe, df) under the backend failures of plan
save_price_data(c, symbol, timeframe, df, plan) ==
    RunToEnd([conn |-> c, f |-> NewFrame(symbol, timeframe, df, plan)])

---------------------------------------------------------------------------
(* The inputs of the model *)

Times == 1..MaxTime

\* A bar as copy_rates_from_pos delivers it, its time converted by to_datetime;
\* the rates of the terminal have no volume field
Bar(t, p) == [time |-> Num(t), open |-> Num(p), high |-> Num(p), low |-> Num(p),
              close |-> Num(p), tick_volume |-> Num(7), spread |-> Num(2),
              real_volume |-> Num(0), volume |-> Absent]

\* The same bar with other prices, an invalid or infinite close, no time (NaT),
\* or a tick volume no SQLite INTEGER holds
Variants(r) == {[r EXCEPT !.open = Num(2), !.high = Num(2), !.low = Num(2), !.close = Num(2)],
                [r EXCEPT !.close = Num(-1)],
                [r EXCEPT !.close = Inf],
                [r EXCEPT !.time = NaN],
                [r EXCEPT !.tick_volume = Huge]}

BaseBatches == UNION {[1..n -> {Bar(t, 1) : t \in Times}] : n \in 1..MaxBatch}

\* The DataFrames handed to save_price_data: at most one row of each is unusual
Batches == BaseBatches \cup
           UNION {UNION {{[b EXCEPT ![i] = v] : v \in Variants(b[i])} : i \in DOMAIN b} :
                     b \in BaseBatches}

\* The rows a database file of an earlier run holds: the bars up to time n
RECURSIVE StoredBars(_)
StoredBars(n) ==
    IF n = 0 THEN <<>> ELSE Append(StoredBars(n - 1), Record(EURUSD, H1, Bar(n, 1)))

\* The connection as setup_database opens it, on a new file or on the file of
\* an earlier run that stored the first bar or all of them
InitialConns == {[EmptyConn EXCEPT !.price_data = StoredBars(n), !.committed = n] :
                    n \in {0, 1, MaxTime}}

---------------------------------------------------------------------------
(* One caller: save_price_data is called, and called again with the same     *)
(* arguments.  last keeps the finished call, the connection before it and    *)
(* the first call.                                                           *)

\* self.stats as __init__ sets it (lines 43-50)
NoStats == [symbols_processed |-> 0, total_bars_downloaded |-> 0, errors |-> 0,
            symbols_completed |-> <<>>, symbols_failed |-> <<>>]

\* The builder as __init__ leaves it (lines 19-20): no connection, mt5_connected
\* False.  source is what copy_rates_from_pos may answer for each timeframe
\* and faults what may go wrong in the attempt: an exception of the fetch, or
\* a backend that refuses the writes.  n counts the calls of build_database,
\* outcome is how far the last one
\* got, rows0 the rows price_data held when it began, mt5 the state of the
\* terminal link, cleanups the calls of cleanup since build_database was
\* entered and result what build_database gave its caller
NoRun == [pc |-> "none", symbols |-> <<>>, timeframes |-> <<>>, max_workers |-> 0,
          source |-> <<>>, faults |-> <<>>,
          n |-> 0, outcome |-> "none", rows0 |-> 0, connection |-> "none",
          mt5_connected |-> FALSE, mt5 |-> "down", cleanups |-> 0, result |-> "none"]

\* The builder when the pool of a first call is made (lines 611-642): the
\* terminal is connected and the database open
Begun == [NoRun EXCEPT !.pc = "running", !.n = 1, !.outcome = "started",
                       !.connection = "open", !.mt5_connected = TRUE, !.mt5 = "up"]

NoCall == [n |-> 0, f |-> Idle, before |-> EmptyConn, first |-> Idle]

\* A first call meets an unusual row or a backend failure; the second call of the
\* same DataFrame meets any backend failure
Inputs == {<<df, plan>> : df \in BaseBatches, plan \in FaultPlans}
          \cup {<<df, NoFault>> : df \in Batches}

Init == /\ conn \in InitialConns
        /\ last = NoCall
        /\ tasks = <<>>
        /\ stats = NoStats
        /\ run = NoRun

\* save_price_data(symbol, timeframe, df), the whole call
Call ==
    /\ last.n = 0
    /\ \E in \in Inputs :
         \E r \in {save_price_data(conn, EURUSD, H1, in[1], in[2])} :
         /\ conn' = r.conn
         /\ last' = [n |-> 1, f |-> r.f, before |-> conn, first |-> r.f]
    /\ UNCHANGED <<tasks, stats, run>>

\* The same call again
Repeat ==
    /\ last.n = 1
    /\ \E plan \in FaultPlans :
         \E r \in {save_price_data(conn, last.f.symbol, last.f.timeframe, last.f.df, plan)} :
         /\ conn' = r.conn
         /\ last' = [n |-> 2, f |-> r.f, before |-> conn, first |-> last.f]
    /\ UNCHANGED <<tasks, stats, run>>

Next == Call \/ Repeat

Spec == Init /\ [][Next]_vars

---------------------------------------------------------------------------
(* classify_symbol, and save_symbols_info that stores its answer              *)

\* str.upper() of one character, for the letters the tickers below hold
UpperChar(c) ==
    CASE c = "e" -> "E" [] c = "u" -> "U" [] c = "r" -> "R"
      [] c = "s" -> "S" [] c = "d" -> "D" [] c = "m" -> "M"
      [] OTHER -> c

Upper(symbol) == [i \in DOMAIN symbol |-> UpperChar(symbol[i])]

\* pattern in symbol_upper
Contains(pattern, s) ==
    \E i \in 0..(Len(s) - Len(pattern)) : SubSeq(s, i + 1, i + Len(pattern)) = pattern

index_patterns ==
    {<<"U","S","3","0">>, <<"N","A","S","1","0","0">>, <<"S","P","X","5","0","0">>,
     <<"U","K","1","0","0">>, <<"G","E","R","3","0">>, <<"F","R","A","4","0">>,
     <<"J","P","N","2","2","5">>, <<"A","U","S","2","0","0">>, <<"U","S","T","E","C">>,
     <<"V","I","X">>}

forex_patterns ==
    {<<"E","U","R">>, <<"U","S","D">>, <<"G","B","P">>, <<"J","P","Y">>, <<"C","H","F">>,
     <<"A","U","D">>, <<"C","A","D">>, <<"N","Z","D">>}

commodity_patterns ==
    {<<"G","O","L","D">>, <<"S","I","L","V","E","R">>, <<"O","I","L">>,
     <<"B","R","E","N","T">>, <<"X","A","U">>, <<"X","A","G">>, <<"U","S","O">>}

crypto_patterns ==
    {<<"B","T","C">>, <<"E","T","H">>, <<"L","T","C">>, <<"X","R","P">>, <<"A","D","A">>,
     <<"D","O","T">>}

\* any(pattern in symbol_upper for pattern in patterns)
AnyIn(patterns, symbol_upper) == \E pattern \in patterns : Contains(pattern, symbol_upper)

\* The forex rule tried before the index rule
ClassifyForexFirst(symbol) ==
    LET symbol_upper == Upper(symbol) IN
    IF Len(symbol) = 6 /\ AnyIn(forex_patterns, symbol_upper) THEN "FOREX"
    ELSE IF AnyIn(index_patterns, symbol_upper) THEN "INDEX"
    ELSE IF AnyIn(commodity_patterns, symbol_upper) THEN "COMMODITY"
    ELSE IF AnyIn(crypto_patterns, symbol_upper) THEN "CRYPTO"
    ELSE "OTHER"

classify_symbol(symbol) ==
    LET symbol_upper == Upper(symbol) IN
    IF AnyIn(index_patterns, symbol_upper) THEN "INDEX"
    ELSE IF Len(symbol) = 6 /\ AnyIn(forex_patterns, symbol_upper) THEN "FOREX"
    ELSE IF AnyIn(commodity_patterns, symbol_upper) THEN "COMMODITY"
    ELSE IF AnyIn(crypto_patterns, symbol_upper) THEN "CRYPTO"
    ELSE "OTHER"

XAUUSD == <<"X", "A", "U", "U", "S", "D">>
BTCUSD == <<"B", "T", "C", "U", "S", "D">>
ZZZZZZ == <<"Z", "Z", "Z", "Z", "Z", "Z">>
USDVIX == <<"U", "S", "D", "V", "I", "X">>

\* The names mt5.symbols_get() may answer: the fixtures, a 6-character index
\* name with a currency code, 7-character names, a lower-case name
Tickers == {EURUSD, US30, XAUUSD, BTCUSD, ZZZZZZ, USDVIX,
            <<"X","A","U","U","S","D","m">>, <<"B","T","C","U","S","D","m">>,
            <<"e","u","r","u","s","d">>}

MaxSymbols == 2

\* INSERT OR IGNORE INTO symbol_info: a stored symbol keeps its row
InsertOrIgnoreRow(table, row) ==
    IF \E r \in table : r.symbol = row.symbol THEN table ELSE table \cup {row}

\* INSERT OR REPLACE INTO symbol_info (lines 238-242), symbol the PRIMARY KEY
\* (line 161): the row of the symbol is deleted and the new one inserted
ReplaceRow(table, row) == {r \in table : r.symbol # row.symbol} \cup {row}

\* INSERT OR REPLACE INTO symbol_info, the row reduced to (symbol, category)
ReplaceSymbol(table, symbol, category) ==
    ReplaceRow(table, [symbol |-> symbol, category |-> category])

RECURSIVE SaveEach(_, _)
SaveEach(table, symbols) ==
    IF symbols = <<>> THEN table
    ELSE SaveEach(ReplaceSymbol(table, Head(symbols), classify_symbol(Head(symbols))),
                  Tail(symbols))

\* save_symbols_info(symbols), lines 229-261
save_symbols_info ==
    /\ \E n \in 1..MaxSymbols : \E symbols \in [1..n -> Tickers] :
         conn' = [conn EXCEPT !.symbol_info = SaveEach(@, symbols)]
    /\ UNCHANGED <<last, tasks, stats, run>>

SymbolsInit == /\ conn = EmptyConn
               /\ last = NoCall
               /\ tasks = <<>>
               /\ stats = NoStats
               /\ run = NoRun

SpecSymbols == SymbolsInit /\ [][save_symbols_info]_vars

\* save_symbols_info on snapshots of the terminal's symbols, a snapshot
\* reduced to its name and its digits, which the object may lack
SnapshotNames == {EURUSD, US30, XAUUSD}

SnapshotDigits == {Absent, Num(2), Num(5)}

Snapshots == {[name |-> s, digits |-> d] : s \in SnapshotNames, d \in SnapshotDigits}

\* getattr(symbol, 'digits', 0)
GetAttr(x, default) == IF x = Absent THEN default ELSE x.v

\* The parameters of the INSERT (lines 243-255)
SymbolRow(snapshot) ==
    [symbol |-> snapshot.name, category |-> classify_symbol(snapshot.name),
     digits |-> GetAttr(snapshot.digits, 0)]

RECURSIVE SaveSnapshots(_, _)
SaveSnapshots(table, snapshots) ==
    IF snapshots = <<>> THEN table
    ELSE SaveSnapshots(ReplaceRow(table, SymbolRow(Head(snapshots))), Tail(snapshots))

\* For each symbol the snapshot of the last INSERT that ran for it, and
\* whether an INSERT met a row of the symbol with other digits
NoSnapshot == [seen |-> FALSE, digits |-> Absent, replaced |-> FALSE]

RECURSIVE Latest(_, _)
Latest(hist, snapshots) ==
    IF snapshots = <<>> THEN hist
    ELSE LET h == Head(snapshots)
             old == hist[h.name]
         IN  Latest([hist EXCEPT ![h.name] =
                        [seen |-> TRUE, digits |-> h.digits,
                         replaced |-> old.replaced
                                      \/ (old.seen /\ GetAttr(old.digits, 0)
                                                        # GetAttr(h.digits, 0))]],
                    Tail(snapshots))

\* save_symbols_info(symbols), lines 229-261: the loop runs k of the INSERTs
\* when the execute after them raises (the handler of 260-261 logs it), and all
\* of them otherwise; the table is what a query on self.connection sees
SaveSnapshotsCall ==
    /\ \E n \in 1..MaxSymbols : \E snapshots \in [1..n -> Snapshots] : \E k \in 0..n :
         /\ conn' = [conn EXCEPT !.symbol_info = SaveSnapshots(@, SubSeq(snapshots, 1, k))]
         /\ last' = Latest(last, SubSeq(snapshots, 1, k))
    /\ UNCHANGED <<tasks, stats, run>>

SnapshotInit == /\ conn = EmptyConn
                /\ last = [s \in SnapshotNames |-> NoSnapshot]
                /\ tasks = <<>>
                /\ stats = NoStats
                /\ run = NoRun

SpecSnapshots == SnapshotInit /\ [][SaveSnapshotsCall]_vars

---------------------------------------------------------------------------
(* The row loop of save_price_data on one row at a time: a bar with a valid   *)
(* time whose optional fields take every kind of cell value                   *)

OptionalCells == {Num(7), Num(0), NaN, Str, Absent, Inf, Huge}

\* A DataFrame of another origin may carry a volume column
RawVolumes == {Absent, Num(9)}

Rows == {[Bar(1, 1) EXCEPT !.close = c, !.tick_volume = tv, !.spread = sp,
                            !.real_volume = rv, !.volume = vol] :
            c \in {Num(1), Num(-1)}, tv \in OptionalCells,
            sp \in OptionalCells, rv \in OptionalCells, vol \in RawVolumes}

RowInit == /\ conn = EmptyConn
           /\ last = NoCall
           /\ tasks = <<>>
           /\ stats = NoStats
           /\ run = NoRun

\* save_price_data(symbol, timeframe, df) with a DataFrame of one row
CallRow ==
    /\ last.n = 0
    /\ \E row \in Rows :
         \E r \in {save_price_data(conn, EURUSD, H1, <<row>>, NoFault)} :
         /\ conn' = r.conn
         /\ last' = [n |-> 1, f |-> r.f, before |-> conn, first |-> r.f]
    /\ UNCHANGED <<tasks, stats, run>>

SpecRow == RowInit /\ [][CallRow]_vars

---------------------------------------------------------------------------
(* build_database: one download_symbol_data task per symbol, run by the       *)
(* threads of a pool; the tasks share the connection and self.stats.          *)

MaxWorkers == 2

\* symbols_to_process, a list the configuration may repeat a symbol in
RunSymbolLists == {<<EURUSD, US30>>, <<EURUSD, EURUSD>>}

RunTimeframes == <<M1, H1>>

\* What copy_rates_from_pos answers: nothing, or rows whose time is an epoch,
\* missing (NaN) or not convertible (Str), or rows without a time field
RunRates == {<<>>,
             <<Bar(1, 1)>>,
             <<[Bar(1, 1) EXCEPT !.time = NaN], Bar(2, 1)>>,
             <<[Bar(1, 1) EXCEPT !.time = Str]>>,
             <<[Bar(1, 1) EXCEPT !.time = Absent]>>}

\* pd.to_datetime(df['time'], unit='s', errors='coerce') of one cell (line 321)
ToDatetime(x) == IF x.k = "num" THEN x ELSE NaN

\* 'time' in df.columns
HasTimeColumn(rates) == \E i \in DOMAIN rates : InRow(rates[i].time)

\* Lines 319-323: the conversion of the time column and dropna(subset=['time'])
CleanTime(rates) ==
    IF HasTimeColumn(rates)
    THEN SelectSeq([i \in DOMAIN rates |-> [rates[i] EXCEPT !.time = ToDatetime(@)]],
                   LAMBDA r : ~IsNa(r.time))
    ELSE rates

\* results of download_symbol_data and the position of its thread; selectable
\* keeps what mt5.symbol_select answered
NewTask(symbol) ==
    [pc |-> "queued", symbol |-> symbol, tfi |-> 0, spd |-> Idle, results |-> <<>>,
     total_bars |-> 0, success |-> TRUE, raised |-> FALSE, reg |-> 0,
     selectable |-> TRUE]

\* One entry of results['timeframes'], with the rows the source answered
TfResult(tf, rates, bars_count, bars_saved, success) ==
    [tf |-> tf, rates |-> rates, bars_count |-> bars_count, bars_saved |-> bars_saved,
     success |-> success, fault |-> "none"]

\* A loop that passes over the next tf_name
SkipTimeframe(task) == [task EXCEPT !.pc = "fetch", !.tfi = @ + 2, !.spd = Idle]

\* time.sleep(0.1) and the next tf_name of the loop (lines 301, 374-375)
NextTimeframe(task) == [task EXCEPT !.pc = "fetch", !.tfi = @ + 1, !.spd = Idle]

\* A return in the place of the continue: the failed result ends the task
FailedTimeframeReturns(task, tf, rates) ==
    [task EXCEPT !.pc = "done",
                 !.results = Append(@, TfResult(tf, rates, 0, 0, FALSE))]

\* A failed timeframe that marks the symbol failed
FailedTimeframeFailsSymbol(task, tf, rates) ==
    NextTimeframe([task EXCEPT !.results = Append(@, TfResult(tf, rates, 0, 0, FALSE)),
                               !.success = FALSE])

\* Lines 325-333, 354-362: a failed, zero-bar result, and on with the loop
FailedTimeframe(task, tf, rates) ==
    NextTimeframe([task EXCEPT !.results = Append(@, TfResult(tf, rates, 0, 0, FALSE))])

\* max_workers up to the number of submitted tasks: the pool starts a thread
\* only for a task that finds none idle, so a larger pool runs the same
SetupRun == \E symbols \in RunSymbolLists, w \in 1..MaxWorkers :
    /\ w <= Len(symbols)
    /\ run = [Begun EXCEPT !.symbols = symbols, !.timeframes = RunTimeframes,
                            !.max_workers = w,
                            !.source = [tf \in {M1, H1} |-> RunRates],
                            !.faults = [tf \in {M1, H1} |-> {"none"}],
                            !.rows0 = Len(conn.price_data)]
    /\ tasks = [t \in DOMAIN symbols |-> NewTask(symbols[t])]

RunInit == /\ conn \in {c \in InitialConns : Len(c.price_data) <= 1}
           /\ last = NoCall
           /\ stats = NoStats
           /\ SetupRun

Running(t) == tasks[t].pc \notin {"queued", "done", "collected"}

\* A pool that starts a thread for every submitted task
StartTaskUnbounded(t) ==
    /\ run.pc = "running"
    /\ tasks[t].pc = "queued"
    /\ tasks' = [tasks EXCEPT ![t].pc = "select"]
    /\ UNCHANGED <<conn, last, stats, run>>

\* A thread of the pool takes the next submitted task (lines 642-646).  The
\* threads go on taking tasks while the coordinator leaves the with block on
\* an interrupt, and after it has left: the pool is shut down with wait and
\* nothing cancels the queue
StartTask(t) ==
    /\ run.pc \in {"running", "interrupted", "aborted"}
    /\ tasks[t].pc = "queued"
    /\ \A u \in DOMAIN tasks : u < t => tasks[u].pc # "queued"
    /\ Cardinality({u \in DOMAIN tasks : Running(u)}) < run.max_workers
    /\ tasks' = [tasks EXCEPT ![t].pc = "select"]
    /\ UNCHANGED <<conn, last, stats, run>>

\* The answer of symbol_select noted but not acted upon
SelectAndGoOn(t) ==
    /\ tasks[t].pc = "select"
    /\ \E selectable \in BOOLEAN :
         tasks' = [tasks EXCEPT ![t] =
                     [@ EXCEPT !.pc = "fetch", !.tfi = 1, !.success = selectable,
                               !.selectable = selectable]]
    /\ UNCHANGED <<conn, last, stats, run>>

\* mt5.symbol_select(symbol, True), lines 293-299; a terminal that was shut
\* down answers False
Select(t) ==
    /\ tasks[t].pc = "select"
    /\ \E selectable \in IF run.mt5 = "up" THEN BOOLEAN ELSE {FALSE} :
         tasks' = [tasks EXCEPT ![t] =
                     IF selectable THEN [@ EXCEPT !.pc = "fetch", !.tfi = 1]
                     ELSE [@ EXCEPT !.pc = "done", !.success = FALSE,
                                    !.selectable = FALSE]]
    /\ UNCHANGED <<conn, last, stats, run>>

\* The backend refuses the first record: the test insert fails
WriteFailure == [NoFault EXCEPT !.failAt = 1, !.mode = "perm"]

\* An exception of the fetch that ends the task
FetchExceptionReturns(task, tf, errors) ==
    [task EXCEPT !.pc = "done",
                 !.results = Append(@, [TfResult(tf, <<>>, 0, 0, FALSE)
                                          EXCEPT !.fault = "fetch_exception"])]

\* copy_rates_from_pos or the making of the DataFrame raises (lines 310-313):
\* lines 364-372 record the failure and read self.stats['errors']
FetchException(task, tf, errors) ==
    [task EXCEPT !.pc = "err",
                 !.results = Append(@, [TfResult(tf, <<>>, 0, 0, FALSE)
                                          EXCEPT !.fault = "fetch_exception"]),
                 !.reg = errors]

\* Lines 301-333, 354-362: the rates of the next timeframe are fetched and
\* cleaned, and the rows of save_price_data prepared; or the loop ends (377).
\* A terminal that was shut down answers None, and self.connection.cursor()
\* (line 389) raises on a closed connection into the handler of 583-588
Fetch(t) ==
    /\ tasks[t].pc = "fetch"
    /\ IF tasks[t].tfi > Len(run.timeframes)
       THEN tasks' = [tasks EXCEPT ![t].pc = "done"]
       ELSE \E rates \in IF run.mt5 = "up" THEN run.source[run.timeframes[tasks[t].tfi]]
                          ELSE {<<>>},
               fault \in run.faults[run.timeframes[tasks[t].tfi]] :
              LET tf == run.timeframes[tasks[t].tfi]
                  df == CleanTime(rates)
                  plan == IF fault = "write_failure" THEN WriteFailure ELSE NoFault
              IN  tasks' = [tasks EXCEPT ![t] =
                     IF fault = "fetch_exception"
                     THEN FetchException(@, tf, stats.errors)
                     ELSE IF Len(rates) = 0 \/ Len(df) = 0
                     THEN FailedTimeframe(@, tf, rates)
                     ELSE [@ EXCEPT !.pc = "save",
                             !.results = Append(@, [TfResult(tf, rates, Len(df), 0, FALSE)
                                                      EXCEPT !.fault = fault]),
                             !.spd = IF run.connection = "open"
                                     THEN StepBegin(conn, NewFrame(tasks[t].symbol, tf,
                                                                   df, plan)).f
                                     ELSE GeneralHandler(NewFrame(tasks[t].symbol, tf,
                                                                  df, plan))]]
    /\ UNCHANGED <<conn, last, stats, run>>

\* A statement on a connection that was closed raises
\* sqlite3.ProgrammingError, an sqlite3.Error: every execute and commit fails
ClosedStep(c, f) ==
    Step(c, [f EXCEPT !.plan = [failAt |-> IF f.pc = "test" THEN 1 ELSE f.i,
                                mode |-> "perm", commit |-> TRUE, stats |-> TRUE]])

\* One statement of save_price_data on the shared connection (line 336)
Save(t) ==
    /\ tasks[t].pc = "save"
    /\ tasks[t].spd.pc # "done"
    /\ \E s \in {IF run.connection = "open" THEN Step(conn, tasks[t].spd)
                  ELSE ClosedStep(conn, tasks[t].spd)} :
         /\ conn' = s.conn
         /\ tasks' = [tasks EXCEPT ![t].spd = s.f]
    /\ UNCHANGED <<last, stats, run>>

\* Lines 338-347: the result of the timeframe, and the read of
\* self.stats['total_bars_downloaded'] for the += of line 347.  df['time'] of
\* line 341 raises KeyError when df has no such column: lines 364-372 then
\* record the failure and read self.stats['errors'] for the += of line 372
Post(t) ==
    /\ tasks[t].pc = "save"
    /\ tasks[t].spd.pc = "done"
    /\ LET bars_saved == tasks[t].spd.ret
           n == Len(tasks[t].results)
       IN  tasks' = [tasks EXCEPT ![t] =
               IF tasks[t].spd.raised \/ ~HasTimeColumn(tasks[t].spd.df)
               THEN [@ EXCEPT !.pc = "err",
                              !.results[n].bars_count = 0,
                              !.reg = stats.errors]
               ELSE [@ EXCEPT !.pc = "add",
                              !.results[n].bars_saved = bars_saved,
                              !.results[n].success = bars_saved > 0,
                              !.total_bars = @ + bars_saved,
                              !.reg = stats.total_bars_downloaded]]
    /\ UNCHANGED <<conn, last, stats, run>>

\* The store of line 372, then the next timeframe
CountError(t) ==
    /\ tasks[t].pc = "err"
    /\ stats' = [stats EXCEPT !.errors = tasks[t].reg + 1]
    /\ tasks' = [tasks EXCEPT ![t] = NextTimeframe(@)]
    /\ UNCHANGED <<conn, last, run>>

\* The store of line 347, then the next timeframe
Add(t) ==
    /\ tasks[t].pc = "add"
    /\ stats' = [stats EXCEPT !.total_bars_downloaded = tasks[t].reg + tasks[t].spd.ret]
    /\ tasks' = [tasks EXCEPT ![t] = NextTimeframe(@)]
    /\ UNCHANGED <<conn, last, run>>

\* The loop body without the test of result['success']
CollectAsCompleted(t) ==
    /\ run.pc = "running"
    /\ tasks[t].pc = "done"
    /\ tasks' = [tasks EXCEPT ![t].pc = "collected"]
    /\ stats' = [stats EXCEPT !.symbols_processed = @ + 1,
                              !.symbols_completed = Append(@, tasks[t].symbol)]
    /\ UNCHANGED <<conn, last, run>>

\* A loop that takes the successful results only
CollectSuccessful(t) ==
    /\ run.pc = "running"
    /\ tasks[t].pc = "done"
    /\ tasks[t].success
    /\ tasks' = [tasks EXCEPT ![t].pc = "collected"]
    /\ stats' = [stats EXCEPT !.symbols_processed = @ + 1,
                              !.symbols_completed = Append(@, tasks[t].symbol)]
    /\ UNCHANGED <<conn, last, run>>

\* The body of the as_completed loop for one finished future (lines 648-664)
Collect(t) ==
    /\ run.pc = "running"
    /\ tasks[t].pc = "done"
    /\ tasks' = [tasks EXCEPT ![t].pc = "collected"]
    /\ stats' = [stats EXCEPT
                   !.symbols_processed = @ + 1,
                   !.symbols_completed =
                       IF tasks[t].success THEN Append(@, tasks[t].symbol) ELSE @,
                   !.symbols_failed =
                       IF tasks[t].success THEN @ ELSE Append(@, tasks[t].symbol)]
    /\ UNCHANGED <<conn, last, run>>

\* connection.close(): the open transaction is rolled back
Close(c) == [c EXCEPT !.price_data = SubSeq(@, 1, c.committed),
                      !.download_stats = SubSeq(@, 1, c.stats_committed)]

\* cleanup (lines 719-731): the connection is closed if there is one, and the
\* terminal shut down if mt5_connected; neither attribute is reset
cleanup(r) == [r EXCEPT !.connection = IF @ = "open" THEN "closed" ELSE @,
                        !.mt5 = IF r.mt5_connected THEN "down" ELSE @,
                        !.cleanups = @ + 1]

\* Lines 670-678, 719-731: the pool has ended; final statistics, return True
\* and the cleanup of the finally clause
Finish ==
    /\ run.pc = "running"
    /\ \A t \in DOMAIN tasks : tasks[t].pc = "collected"
    /\ run' = [cleanup(run) EXCEPT !.pc = "closed", !.result = "true"]
    /\ conn' = Close(conn)
    /\ UNCHANGED <<last, tasks, stats>>

RunNext == \/ \E t \in DOMAIN tasks : StartTask(t)
           \/ \E t \in DOMAIN tasks : Select(t)
           \/ \E t \in DOMAIN tasks : Fetch(t)
           \/ \E t \in DOMAIN tasks : Save(t)
           \/ \E t \in DOMAIN tasks : Post(t)
           \/ \E t \in DOMAIN tasks : Add(t)
           \/ \E t \in DOMAIN tasks : CountError(t)
           \/ \E t \in DOMAIN tasks : Collect(t)
           \/ Finish

SpecRun == RunInit /\ [][RunNext]_vars

\* A run over three symbols and one timeframe, one worker or one per symbol
WideInit == /\ conn = EmptyConn
            /\ last = NoCall
            /\ stats = NoStats
            /\ \E w \in {1, 3} :
                 run = [Begun EXCEPT !.symbols = <<EURUSD, US30, XAUUSD>>,
                                     !.timeframes = <<H1>>, !.max_workers = w,
                                     !.source = [tf \in {M1, H1} |-> RunRates],
                                     !.faults = [tf \in {M1, H1} |-> {"none"}]]
            /\ tasks = [t \in 1..3 |-> NewTask(<<EURUSD, US30, XAUUSD>>[t])]

SpecWide == WideInit /\ [][RunNext]_vars

\* A run over one symbol on an empty store, with a source that answers each
\* timeframe with fixed rates: nothing, one bar, three bars, a row with no
\* time field, or a row with an invalid price
ThreeBars == [t \in 1..3 |-> Bar(t, 1)]

\* What may go wrong in an attempt
AttemptFaults == {"none", "fetch_exception", "write_failure"}

StubRates == {<<>>, <<Bar(1, 1)>>, ThreeBars, <<[Bar(1, 1) EXCEPT !.time = Absent]>>,
              <<[Bar(1, 1) EXCEPT !.close = Num(-1)]>>}

StubInit == /\ conn = EmptyConn
            /\ last = NoCall
            /\ stats = NoStats
            /\ \E w \in 1..MaxWorkers, m \in StubRates, h \in StubRates,
                  fm \in AttemptFaults, fh \in AttemptFaults :
                 run = [Begun EXCEPT
                          !.symbols = <<EURUSD>>, !.timeframes = <<M1, H1>>,
                          !.max_workers = w,
                          !.source = [tf \in {M1, H1} |-> IF tf = M1 THEN {m} ELSE {h}],
                          !.faults = [tf \in {M1, H1} |-> IF tf = M1 THEN {fm} ELSE {fh}]]
            /\ tasks = <<NewTask(EURUSD)>>

SpecStub == StubInit /\ [][RunNext]_vars

\* A run over two symbols and one timeframe in which every call of the source
\* and of the store returns, with a value or with an exception, and the
\* threads of the pool and the coordinator are scheduled as long as they can
\* take a step
LiveInit == /\ conn = EmptyConn
            /\ last = NoCall
            /\ stats = NoStats
            /\ \E w \in 1..MaxWorkers :
                 run = [Begun EXCEPT !.symbols = <<EURUSD, US30>>,
                                     !.timeframes = <<H1>>, !.max_workers = w,
                                     !.source = [tf \in {M1, H1} |-> StubRates],
                                     !.faults = [tf \in {M1, H1} |-> AttemptFaults]]
            /\ tasks = [t \in 1..2 |-> NewTask(<<EURUSD, US30>>[t])]

SpecLive == LiveInit /\ [][RunNext]_vars /\ WF_vars(RunNext)

---------------------------------------------------------------------------
(* build_database called on one builder, by main or by a caller that calls   *)
(* it again: connection, schema, symbols, the pool, and cleanup.             *)

MaxRuns == 2

\* symbols_to_process, timeframes and what the source may answer
BuildSymbols == <<EURUSD, US30>>

BuildTimeframes == <<H1>>

BuildRates == {<<>>, <<Bar(1, 1)>>, <<[Bar(1, 1) EXCEPT !.time = Absent]>>}

\* How far a call gets: mt5.initialize answers False; initialize succeeds and
\* the terminal has no account (account_info() is None, line 122 raises);
\* sqlite3.connect raises; a CREATE statement raises; there is no symbol to
\* process; an exception after the setup (the pool refuses max_workers); or
\* the pool is made
BuildOutcomes == {"initialize_fails", "account_fails", "open_fails", "schema_fails",
                  "no_symbols", "raises", "started"}

\* The failures of connect_to_mt5 and setup_database
Fatal == {"initialize_fails", "account_fails", "open_fails", "schema_fails"}

\* Lines 106-132 and 134-203: what the call has made of the builder when the
\* outcome is met.  mt5_connected is set after the information lines (127) and
\* self.connection by sqlite3.connect (137); nothing sets them back
Entered(r, outcome) ==
    [r EXCEPT !.n = @ + 1, !.outcome = outcome, !.cleanups = 0, !.result = "none",
              !.rows0 = Len(conn.price_data),
              !.mt5 = IF outcome = "initialize_fails" THEN @ ELSE "up",
              !.mt5_connected =
                  IF outcome \in {"initialize_fails", "account_fails"} THEN @ ELSE TRUE,
              !.connection =
                  IF outcome \in {"initialize_fails", "account_fails", "open_fails"}
                  THEN @ ELSE "open"]

\* A setup_database that logs its exception and returns
ProceedsAfterSchemaFailure(outcome) == outcome \in {"started", "schema_fails"}

\* Lines 616-632: connect_to_mt5 False returns False, setup_database re-raises
\* (203) into the handler of 674-676, no symbol returns False
Proceeds(outcome) == outcome = "started"

\* build_database up to the submission of the tasks (lines 606-646), or to its
\* return False with the cleanup of the finally clause (674-678).  self.stats
\* is what __init__ or the call before left: line 609 sets start_time only
build_database ==
    /\ run.pc \in {"none", "closed"}
    /\ run.n < MaxRuns
    /\ run.result # "raised"
    /\ \E outcome \in BuildOutcomes :
         \E r \in {Entered(run, outcome)} :
            IF Proceeds(outcome)
            THEN /\ run' = [r EXCEPT !.pc = "running", !.symbols = BuildSymbols,
                                     !.timeframes = BuildTimeframes,
                                     !.max_workers = 1,
                                     !.source = [tf \in {M1, H1} |-> BuildRates],
                                     !.faults = [tf \in {M1, H1} |-> {"none"}]]
                 /\ tasks' = [t \in DOMAIN BuildSymbols |-> NewTask(BuildSymbols[t])]
                 /\ conn' = conn
            ELSE /\ run' = [cleanup(r) EXCEPT !.pc = "closed", !.result = "false"]
                 /\ tasks' = <<>>
                 /\ conn' = Close(conn)
    /\ UNCHANGED <<last, stats>>

\* KeyboardInterrupt reaches the coordinator in the as_completed loop: it
\* leaves the loop for the exit of the with block (line 642)
Interrupt ==
    /\ run.pc = "running"
    /\ run' = [run EXCEPT !.pc = "interrupted"]
    /\ UNCHANGED <<conn, last, tasks, stats>>

\* The pool has run every submitted task; KeyboardInterrupt is no Exception,
\* so the finally clause runs cleanup (677-678) and main's handler runs it
\* again (770-772)
FinishInterrupted ==
    /\ run.pc = "interrupted"
    /\ \A t \in DOMAIN tasks : tasks[t].pc \in {"done", "collected"}
    /\ run' = [cleanup(cleanup(run)) EXCEPT !.pc = "closed", !.result = "raised"]
    /\ conn' = Close(conn)
    /\ UNCHANGED <<last, tasks, stats>>

\* A second KeyboardInterrupt reaches the coordinator while the exit of the
\* with block waits for the threads of the pool: the wait is abandoned, the
\* finally clause runs cleanup (677-678) and main's handler runs it again
\* (770-772), while the threads go on with the submitted tasks
InterruptAgain ==
    /\ run.pc = "interrupted"
    /\ \E t \in DOMAIN tasks : tasks[t].pc \notin {"done", "collected"}
    /\ run' = [cleanup(cleanup(run)) EXCEPT !.pc = "aborted", !.result = "raised"]
    /\ conn' = Close(conn)
    /\ UNCHANGED <<last, tasks, stats>>

BuildInit == /\ conn = EmptyConn
             /\ last = NoCall
             /\ tasks = <<>>
             /\ stats = NoStats
             /\ run = NoRun

BuildNext == \/ build_database
             \/ Interrupt
             \/ \E t \in DOMAIN tasks : StartTask(t)
             \/ \E t \in DOMAIN tasks : Select(t)
             \/ \E t \in DOMAIN tasks : Fetch(t)
             \/ \E t \in DOMAIN tasks : Save(t)
             \/ \E t \in DOMAIN tasks : Post(t)
             \/ \E t \in DOMAIN tasks : Add(t)
             \/ \E t \in DOMAIN tasks : CountError(t)
             \/ \E t \in DOMAIN tasks : Collect(t)
             \/ Finish
             \/ FinishInterrupted
             \/ InterruptAgain

SpecBuild == BuildInit /\ [][BuildNext]_vars

---------------------------------------------------------------------------
(* What the claims speak of *)

Finished == last.n > 0

\* The rows the last call added to price_data
NewRows == Len(conn.price_data) - Len(last.before.price_data)

InTable(table, rec) == \E j \in 1..Len(table) : SameKey(table[j], rec)

\* No handler of a backend failure ran in the call
Clean(f) == f.log \subseteq {"batch_completed"}

\* The backend refuses the record at position p of data_to_insert every time
Uninsertable(f, p) == \/ HasHugeInt(f.data[p])
                      \/ f.plan.failAt = p /\ f.plan.mode = "perm"

IsPrefix(s, t) == /\ Len(s) <= Len(t)
                  /\ \A j \in 1..Len(s) : s[j] = t[j]

OHLC == {"open", "high", "low", "close"}

\* A finite, strictly positive price
ValidPrice(x) == \/ x.k = "huge"
                 \/ x.k = "num" /\ x.v > 0

---------------------------------------------------------------------------
(* C1: save_price_data returns the number of rows the call newly inserted,  *)
(* for any batch and any prior content of the store; in particular a second *)
(* call with the same input returns zero.  Stated for the calls in which no *)
(* backend failure occurred.                                                *)
C1_ReturnsNewlyInserted ==
    (Finished /\ Clean(last.f)) => last.f.ret = NewRows

(* C2: writing the same bars for one (symbol, timeframe) a second time,     *)
(* after a first write that met no backend failure, leaves price_data as it *)
(* was after the first write.                                               *)
C2_SecondWriteChangesNothing ==
    (last.n = 2 /\ Clean(last.first)) =>
        /\ conn.price_data = last.before.price_data
        /\ conn.committed = last.before.committed

C2_Witness ==
    /\ last.n = 2
    /\ Clean(last.first)
    /\ last.first.ret > 1
    /\ Len(last.f.data) > 1
    /\ last.f.plan = NoFault
    /\ last.f.pc = "done"

(* C4: a bar already in the store is never modified or removed by a later   *)
(* call: the rows present before a call are the first rows after it, with   *)
(* the values they had, also when the call brings other values for a key.   *)
C4_StoredRowsUntouched ==
    Finished => IsPrefix(last.before.price_data, conn.price_data)

C4_Witness ==
    /\ Finished
    /\ "batch_completed" \in last.f.log
    /\ \E p \in DOMAIN last.f.data : \E j \in 1..Len(last.before.price_data) :
          /\ SameKey(last.before.price_data[j], last.f.data[p])
          /\ last.before.price_data[j].close # last.f.data[p].close
          /\ conn.price_data[j] = last.before.price_data[j]

(* C5: when the batch insert fails, the fallback inserts record by record   *)
(* and continues past every failure: every record that can be inserted is   *)
(* in the store after the call, and the call returns the number of rows it  *)
(* persisted.                                                               *)
C5_FallbackPersistsInsertable ==
    (Finished /\ "batch_error" \in last.f.log) =>
        /\ \A p \in DOMAIN last.f.data :
              ~Uninsertable(last.f, p) => InTable(conn.price_data, last.f.data[p])
        /\ last.f.ret = NewRows

(* C6: when exactly one sanitized record of a batch cannot be inserted, at  *)
(* any position, the first included, all the other records of the batch are *)
(* in the store after the call.                                             *)
C6_OneBadRecordLosesNothing ==
    (Finished /\ Cardinality({p \in DOMAIN last.f.data : Uninsertable(last.f, p)}) = 1) =>
        \A p \in DOMAIN last.f.data :
            ~Uninsertable(last.f, p) => InTable(conn.price_data, last.f.data[p])

\* A raw row whose four prices are present, finite and strictly positive
ValidOHLC(row) == \A field \in OHLC : ValidPrice(row[field])

\* n rows with distinct timestamps, none of them stored, exactly one with an
\* invalid price, written with no backend failure
C7_Case ==
    /\ last.n = 1
    /\ last.f.plan = NoFault
    /\ \A i \in DOMAIN last.f.df :
          /\ last.f.df[i].time.k = "num"
          /\ last.f.df[i].tick_volume.k = "num"
          /\ ~InTable(last.before.price_data, Record(last.f.symbol, last.f.timeframe, last.f.df[i]))
    /\ \A i, j \in DOMAIN last.f.df : i # j => last.f.df[i].time # last.f.df[j].time
    /\ Cardinality({i \in DOMAIN last.f.df : ~ValidOHLC(last.f.df[i])}) = 1

(* C7: for n raw records with distinct timestamps, none of them stored yet, *)
(* of which exactly one has an invalid OHLC value, sanitization rejects     *)
(* exactly that record and the store persists the other n-1.                *)
C7_RejectsExactlyTheInvalidRecord ==
    C7_Case =>
        /\ Len(last.f.data) = Len(last.f.df) - 1
        /\ NewRows = Len(last.f.df) - 1
        /\ \A i \in DOMAIN last.f.df :
              ValidOHLC(last.f.df[i]) <=>
                  InTable(conn.price_data, Record(last.f.symbol, last.f.timeframe, last.f.df[i]))

(* C8: no failure of the backend propagates out of save_price_data: every   *)
(* call returns a count, a natural number, and raises nothing.              *)
C8_ReturnsCountNeverRaises ==
    Finished => /\ last.f.pc = "done"
                /\ ~last.f.raised
                /\ last.f.ret \in Nat

C8_Witness ==
    /\ Finished
    /\ "general_error" \in last.f.log
    /\ last.f.ret = 0
    /\ ~last.f.raised

(* C9: a record is accepted only if each of open, high, low and close is    *)
(* present, finite and strictly positive: no other record is prepared for   *)
(* insertion, and none reaches the store.                                   *)
C9_OnlyFinitePositivePrices ==
    /\ \A j \in 1..Len(conn.price_data) : ValidOHLC(conn.price_data[j])
    /\ \A p \in DOMAIN last.f.data : ValidOHLC(last.f.data[p])


---------------------------------------------------------------------------
(* Claims on the run of build_database (SpecRun) *)

NoDuplicateKeys(table) ==
    \A i, j \in 1..Len(table) : SameKey(table[i], table[j]) => i = j

\* The entry n of the task's results is final
Settled(task, n) == n < Len(task.results) \/ task.pc # "save"

\* The raw row has no time that converts to an epoch
MissingTime(row) == row.time.k # "num"

(* C3: under every interleaving of the symbol tasks' writes, no two rows of *)
(* price_data share (symbol, timeframe, time), and writing a triple that is *)
(* already stored enters no error handler and raises nothing.               *)
C3_UniqueTripleNoError ==
    /\ NoDuplicateKeys(conn.price_data)
    /\ \A t \in DOMAIN tasks : /\ Clean(tasks[t].spd)
                               /\ ~tasks[t].spd.raised

\* Two tasks of one symbol have both written the same bar of one timeframe
C3_Witness ==
    \E t, u \in DOMAIN tasks :
        /\ t # u
        /\ tasks[t].symbol = tasks[u].symbol
        /\ Len(tasks[t].results) >= 1 /\ Len(tasks[u].results) >= 1
        /\ Settled(tasks[t], 1) /\ Settled(tasks[u], 1)
        /\ tasks[t].results[1].rates = <<Bar(1, 1)>>
        /\ tasks[u].results[1].rates = <<Bar(1, 1)>>
        /\ tasks[t].results[1].bars_saved > 0
        /\ tasks[u].results[1].bars_saved > 0
        /\ InTable(conn.price_data, Record(tasks[t].symbol, M1, Bar(1, 1)))

(* C10: a raw row whose time is missing or not convertible is rejected and  *)
(* nothing else: no exception leaves save_price_data, no stored row lacks a *)
(* time and the row is not counted, the other rows of its batch are stored, *)
(* every selected symbol's task goes through every timeframe, and the run   *)
(* processes every symbol.                                                  *)
C10_MissingTimeRejectsOnlyThatRecord ==
    /\ \A j \in 1..Len(conn.price_data) : conn.price_data[j].time.k = "num"
    /\ \A t \in DOMAIN tasks :
         /\ ~tasks[t].spd.raised
         /\ \A n \in DOMAIN tasks[t].results :
              LET r == tasks[t].results[n]
                  kept == {i \in DOMAIN r.rates : ~MissingTime(r.rates[i])}
              IN  (Settled(tasks[t], n) /\ kept # DOMAIN r.rates) =>
                     /\ r.bars_count = Cardinality(kept)
                     /\ run.pc = "running" =>
                          \A i \in kept :
                             InTable(conn.price_data,
                                     Record(tasks[t].symbol, r.tf, r.rates[i]))
         /\ (tasks[t].pc \in {"done", "collected"} /\ tasks[t].success) =>
                Len(tasks[t].results) = Len(run.timeframes)
    /\ run.pc = "closed" =>
         /\ stats.symbols_processed = Len(run.symbols)
         /\ \A t \in DOMAIN tasks : tasks[t].pc = "collected"

\* The run has ended; a first symbol's first timeframe had a row without time
\* and a row that is stored, and its next timeframe and the next symbol stored
\* their bars
C10_Witness ==
    /\ run.pc = "closed"
    /\ Len(tasks[1].results) = 2
    /\ Len(tasks[1].results[1].rates) = 2
    /\ MissingTime(tasks[1].results[1].rates[1])
    /\ tasks[1].results[1].bars_saved > 0
    /\ InTable(conn.price_data, Record(tasks[1].symbol, M1, Bar(2, 1)))
    /\ tasks[1].results[2].success
    /\ tasks[2].symbol # tasks[1].symbol
    /\ tasks[2].success
    /\ Len(tasks[2].results) = 2
    /\ tasks[2].results[2].success


---------------------------------------------------------------------------
(* Claims on the optional fields of a row (SpecRow) *)

OptionalFields == {"tick_volume", "spread", "real_volume"}

\* The cell is absent, NaN, or no integer can be made of it
MissingOrUnparseable(x) == ~InRow(x) \/ IsNa(x) \/ x.k \in {"str", "inf", "ninf"}

\* The records prepared for insertion from the raw row
Accepted(f, row) == {p \in DOMAIN f.data : f.data[p].time = row.time}

(* C11: a row with a valid time and valid prices is accepted whatever its   *)
(* tick_volume, spread and real_volume are: a missing or unparseable one of *)
(* them is recorded as 0, and a tick_volume that is present and parseable   *)
(* is recorded as it is.                                                    *)
C11_OptionalFieldsNeverReject ==
    Finished =>
      \A i \in DOMAIN last.f.df :
         LET row == last.f.df[i] IN
         (row.time.k = "num" /\ ValidOHLC(row)) =>
            /\ Accepted(last.f, row) # {}
            /\ \A p \in Accepted(last.f, row) :
                 /\ \A field \in OptionalFields :
                      MissingOrUnparseable(row[field]) => last.f.data[p][field] = Num(0)
                 /\ ~MissingOrUnparseable(row.tick_volume) =>
                      last.f.data[p].tick_volume = row.tick_volume


---------------------------------------------------------------------------
(* Claims on classify_symbol (SpecSymbols) *)

CategoryOf(symbol) == {r.category : r \in {q \in conn.symbol_info : q.symbol = symbol}}

(* C12: classify is total and deterministic, every saved symbol has exactly *)
(* one category, and the fixtures map exactly: US30 to INDEX, EURUSD to     *)
(* FOREX, XAUUSD to COMMODITY, BTCUSD to CRYPTO, ZZZZZZ to OTHER.           *)
C12_FixturesMapExactly ==
    /\ \A r \in conn.symbol_info : CategoryOf(r.symbol) = {r.category}
    /\ CategoryOf(US30) \subseteq {"INDEX"}
    /\ CategoryOf(EURUSD) \subseteq {"FOREX"}
    /\ CategoryOf(XAUUSD) \subseteq {"COMMODITY"}
    /\ CategoryOf(BTCUSD) \subseteq {"CRYPTO"}
    /\ CategoryOf(ZZZZZZ) \subseteq {"OTHER"}

(* C13: the category is that of the first matching rule in the order INDEX, *)
(* FOREX (only for names of exactly 6 characters), COMMODITY, CRYPTO, and   *)
(* OTHER when no rule matches; a name with an index keyword is an INDEX     *)
(* also when it has 6 characters and holds a currency code.                 *)
C13_FirstMatchingRuleWins ==
    \A r \in conn.symbol_info :
       LET u == Upper(r.symbol)
           index == AnyIn(index_patterns, u)
           forex == Len(r.symbol) = 6 /\ AnyIn(forex_patterns, u)
           commodity == AnyIn(commodity_patterns, u)
           crypto == AnyIn(crypto_patterns, u)
       IN  /\ index => r.category = "INDEX"
           /\ (~index /\ forex) => r.category = "FOREX"
           /\ (~index /\ ~forex /\ commodity) => r.category = "COMMODITY"
           /\ (~index /\ ~forex /\ ~commodity /\ crypto) => r.category = "CRYPTO"
           /\ (~index /\ ~forex /\ ~commodity /\ ~crypto) => r.category = "OTHER"

\* Saved: a 6-character index name with a currency code, and names that fall
\* to each of the later rules
C13_Witness ==
    /\ [symbol |-> USDVIX, category |-> "INDEX"] \in conn.symbol_info
    /\ \A c \in {"FOREX", "COMMODITY", "CRYPTO", "OTHER"} :
          \E r \in conn.symbol_info : r.category = c


---------------------------------------------------------------------------
(* Claims on runs of three symbols (SpecWide) *)

Count(seq, x) == Cardinality({i \in DOMAIN seq : seq[i] = x})

TasksOf(symbol, selectable) ==
    {t \in DOMAIN tasks : tasks[t].symbol = symbol /\ tasks[t].selectable = selectable}

(* C14: when the run has ended, under every concurrency limit and every     *)
(* completion order, symbols_failed holds exactly the symbols that were not *)
(* selectable and symbols_completed exactly the selectable ones.            *)
C14_FailedAreExactlyTheUnselectable ==
    run.pc = "closed" =>
       /\ Len(stats.symbols_failed) + Len(stats.symbols_completed) = Len(run.symbols)
       /\ \A t \in DOMAIN tasks :
            /\ Count(stats.symbols_failed, tasks[t].symbol)
                  = Cardinality(TasksOf(tasks[t].symbol, FALSE))
            /\ Count(stats.symbols_completed, tasks[t].symbol)
                  = Cardinality(TasksOf(tasks[t].symbol, TRUE))

\* Three workers, the second symbol not selectable, and the third symbol
\* completed before the first
C14_Witness ==
    /\ run.pc = "closed"
    /\ run.max_workers = 3
    /\ stats.symbols_failed = <<US30>>
    /\ stats.symbols_completed = <<XAUUSD, EURUSD>>
    /\ tasks[1].results[1].success /\ tasks[3].results[1].success


---------------------------------------------------------------------------
(* Claims on the statistics and the results of a run (SpecRun) *)

RECURSIVE SumSaved(_)
SumSaved(results) ==
    IF results = <<>> THEN 0 ELSE Head(results).bars_saved + SumSaved(Tail(results))

RECURSIVE SumTasks(_)
SumTasks(n) == IF n = 0 THEN 0 ELSE SumSaved(tasks[n].results) + SumTasks(n - 1)

(* C15: under every interleaving of the worker threads, at the end of the   *)
(* run total_bars_downloaded is the sum, over all symbols and timeframes,   *)
(* of the counts save_price_data returned.                                  *)
C15_NoLostUpdate ==
    run.pc = "closed" => stats.total_bars_downloaded = SumTasks(Len(tasks))


---------------------------------------------------------------------------
(* Claims on a run with a fixed source (SpecStub) *)

RowsOf(table, symbol, timeframe) ==
    {j \in 1..Len(table) : table[j].symbol = symbol /\ table[j].timeframe = timeframe}

\* The source answers M1 with nothing and H1 with three valid bars, and the
\* symbol was selectable
C16_Case ==
    /\ run.source[M1] = {<<>>}
    /\ run.source[H1] = {ThreeBars}
    /\ run.faults[M1] = {"none"}
    /\ run.faults[H1] = {"none"}
    /\ tasks[1].selectable

(* C16: with a source that returns three valid H1 bars and an empty M1      *)
(* response for EURUSD, a run over that symbol with timeframes M1, H1 on an *)
(* empty store ends with three price_data rows of (EURUSD, H1), none of     *)
(* (EURUSD, M1), symbols_processed = 1, symbols_completed = [EURUSD] and    *)
(* total_bars_downloaded = 3.                                               *)
C16_EndToEnd ==
    (run.pc = "closed" /\ C16_Case) =>
       /\ Cardinality(RowsOf(conn.price_data, EURUSD, H1)) = 3
       /\ Cardinality(RowsOf(conn.price_data, EURUSD, M1)) = 0
       /\ stats.symbols_processed = 1
       /\ stats.symbols_completed = <<EURUSD>>
       /\ stats.total_bars_downloaded = 3

C16_Witness ==
    /\ run.pc = "closed"
    /\ C16_Case
    /\ Len(tasks[1].results) = 2
    /\ tasks[1].results[2].bars_saved = 3
    /\ Len(conn.price_data) = 3


\* The download_stats rows of one attempt's symbol, timeframe and outcome
StatRowsOf(symbol, timeframe, success) ==
    {j \in 1..Len(conn.download_stats) :
        /\ conn.download_stats[j].symbol = symbol
        /\ conn.download_stats[j].timeframe = timeframe
        /\ conn.download_stats[j].success = success}

(* C17: every fetch attempt of a (symbol, timeframe) appends exactly one    *)
(* download_stats row, with success true for a successful attempt and false *)
(* for a failed one: at the end of a run that attempts each timeframe once, *)
(* each attempt has its one row and there is no other row.                  *)
C17_OneStatRowPerAttempt ==
    run.pc = "closed" =>
       /\ \A n \in DOMAIN tasks[1].results :
            LET r == tasks[1].results[n] IN
            Cardinality(StatRowsOf(tasks[1].symbol, r.tf, r.success)) = 1
       /\ Len(conn.download_stats) = Len(tasks[1].results)


---------------------------------------------------------------------------
(* Claims on symbols that cannot be selected (SpecWide) *)

(* C18: the task of a symbol that is not selectable marks it failed and     *)
(* stops: it fetches no rates and calls save_price_data for no timeframe,   *)
(* and nothing of that symbol is written to the store in the run.           *)
C18_UnselectableSymbolIsNotFetched ==
    \A t \in DOMAIN tasks :
       ~tasks[t].selectable =>
          /\ ~tasks[t].success
          /\ tasks[t].pc \in {"done", "collected"}
          /\ tasks[t].results = <<>>
          /\ tasks[t].spd = Idle
          /\ \A j \in 1..Len(conn.price_data) : conn.price_data[j].symbol # tasks[t].symbol
          /\ \A j \in 1..Len(conn.download_stats) :
                conn.download_stats[j].symbol # tasks[t].symbol

\* The run has ended, the second symbol was not selectable, and bars of the
\* other two are stored
C18_Witness ==
    /\ run.pc = "closed"
    /\ ~tasks[2].selectable
    /\ tasks[1].selectable /\ tasks[3].selectable
    /\ RowsOf(conn.price_data, tasks[1].symbol, H1) # {}
    /\ RowsOf(conn.price_data, tasks[3].symbol, H1) # {}


---------------------------------------------------------------------------
(* Claims on failed timeframes (SpecStub) *)

\* The attempt failed: nothing was answered, the fetch raised, or no row of
\* the answer passed the cleaning and the row loop
FailedAttempt(symbol, r) ==
    \/ r.fault = "fetch_exception"
    \/ Len(r.rates) = 0
    \/ DataToInsert(symbol, r.tf, CleanTime(r.rates)) = <<>>

(* C19: the result of a symbol's task has success = true exactly when the   *)
(* symbol was selectable, whatever happened to its timeframes: empty        *)
(* responses, exceptions of the fetch, rows all rejected, write failures.   *)
C19_SuccessIffSelectable ==
    \A t \in DOMAIN tasks :
       tasks[t].pc \notin {"queued", "select"} =>
          (tasks[t].success <=> tasks[t].selectable)

\* A selectable symbol whose two timeframes failed, one by an exception of the
\* fetch and one by a write failure, has ended as a success
C19_Witness ==
    /\ run.pc = "closed"
    /\ tasks[1].selectable /\ tasks[1].success
    /\ Len(tasks[1].results) = 2
    /\ tasks[1].results[1].fault = "fetch_exception"
    /\ tasks[1].results[2].fault = "write_failure"
    /\ ~tasks[1].results[1].success /\ ~tasks[1].results[2].success
    /\ stats.symbols_completed = <<EURUSD>>

(* C20: a timeframe that fails (empty or absent response, exception during  *)
(* the fetch, every row rejected) is recorded with zero bars saved and      *)
(* success = false, and the symbol goes on: every timeframe of a selectable *)
(* symbol is attempted.                                                     *)
C20_FailedTimeframeIsRecordedAndSkipped ==
    \A t \in DOMAIN tasks :
       /\ \A n \in DOMAIN tasks[t].results :
            LET r == tasks[t].results[n] IN
            (Settled(tasks[t], n) /\ FailedAttempt(tasks[t].symbol, r)) =>
               /\ r.bars_saved = 0
               /\ ~r.success
       /\ (tasks[t].pc \in {"done", "collected"} /\ tasks[t].selectable) =>
             Len(tasks[t].results) = Len(run.timeframes)

\* The first timeframe failed by an exception of the fetch and the second one
\* stored its bars
C20_Witness ==
    /\ run.pc = "closed"
    /\ Len(tasks[1].results) = 2
    /\ tasks[1].results[1].fault = "fetch_exception"
    /\ ~tasks[1].results[1].success
    /\ tasks[1].results[2].success
    /\ tasks[1].results[2].bars_saved = 3
    /\ RowsOf(conn.price_data, EURUSD, H1) # {}


(* C21: a timeframe whose response holds at least one row that passes the   *)
(* cleaning and the row loop is recorded as a success, with the count that  *)
(* save_price_data returned, whatever that count is.                        *)
C21_AcceptedRowsMeanSuccess ==
    \A t \in DOMAIN tasks :
       \A n \in DOMAIN tasks[t].results :
          LET r == tasks[t].results[n] IN
          (Settled(tasks[t], n) /\ ~FailedAttempt(tasks[t].symbol, r)) => r.success


---------------------------------------------------------------------------
(* Claims on the coordinator and the pool (SpecRun) *)

DuplicateFree(seq) == \A i, j \in DOMAIN seq : seq[i] = seq[j] => i = j

Elements(seq) == {seq[i] : i \in DOMAIN seq}

(* C22: every task is run once, and as each completes the coordinator       *)
(* counts it and appends its symbol to one of symbols_completed and         *)
(* symbols_failed: in every state symbols_processed is the sum of the two   *)
(* lengths and at most the number of symbols, the two lists are disjoint    *)
(* and duplicate-free, and at the end symbols_processed is the number of    *)
(* symbols.                                                                 *)
C22_ProcessedOnceEach ==
    /\ stats.symbols_processed = Len(stats.symbols_completed) + Len(stats.symbols_failed)
    /\ stats.symbols_processed <= Len(run.symbols)
    /\ stats.symbols_processed = Cardinality({t \in DOMAIN tasks : tasks[t].pc = "collected"})
    /\ Elements(stats.symbols_completed) \cap Elements(stats.symbols_failed) = {}
    /\ DuplicateFree(stats.symbols_completed)
    /\ DuplicateFree(stats.symbols_failed)
    /\ run.pc = "closed" => stats.symbols_processed = Len(run.symbols)


(* C23: at every instant of a run the number of symbol tasks that execute   *)
(* is at most max_workers.                                                  *)
C23_AtMostMaxWorkersRunning ==
    Cardinality({t \in DOMAIN tasks : Running(t)}) <= run.max_workers

\* One worker for three symbols: a task runs while another waits and a third
\* has ended
C23_Witness ==
    /\ run.max_workers = 1
    /\ Len(tasks) = 3
    /\ tasks[1].pc = "done"
    /\ Running(2)
    /\ tasks[2].pc = "save"
    /\ tasks[3].pc = "queued"

(* C24: within a symbol's task the timeframes are attempted in the order of *)
(* the caller's list and one at a time: the results follow that order, the  *)
(* attempt in progress is the last one begun, and a fetch begins only when  *)
(* the fetch and the write of the timeframe before it have ended.           *)
C24_TimeframesInOrderOneAtATime ==
    \A t \in DOMAIN tasks :
       /\ Len(tasks[t].results) <= Len(run.timeframes)
       /\ \A n \in DOMAIN tasks[t].results : tasks[t].results[n].tf = run.timeframes[n]
       /\ tasks[t].pc \in {"save", "add", "err"} => tasks[t].tfi = Len(tasks[t].results)
       /\ tasks[t].pc = "fetch" =>
             /\ Len(tasks[t].results) = tasks[t].tfi - 1
             /\ tasks[t].spd = Idle
       /\ tasks[t].pc \in {"done", "collected"} => tasks[t].spd.pc \in {"idle", "done"}

\* A task has written the bars of its second timeframe after those of its first
C24_Witness ==
    \E t \in DOMAIN tasks :
       /\ tasks[t].pc = "done"
       /\ Len(tasks[t].results) = 2
       /\ tasks[t].results[1].success
       /\ tasks[t].results[2].success
       /\ RowsOf(conn.price_data, tasks[t].symbol, M1) # {}
       /\ RowsOf(conn.price_data, tasks[t].symbol, H1) # {}


---------------------------------------------------------------------------
(* Claims on build_database as a whole (SpecBuild) *)

(* C25: whenever build_database has returned or propagated (success, no     *)
(* symbols, connection failure, schema failure, exception, interrupt),      *)
(* cleanup has run, the store connection is not left open with a pending    *)
(* transaction, and the terminal link is released if it was established.    *)
C25_CleanupReleasesOnEveryExit ==
    run.pc \in {"closed", "aborted"} =>
       /\ run.cleanups >= 1
       /\ run.connection # "open"
       /\ Len(conn.price_data) = conn.committed
       /\ run.mt5 = "down"

(* C26: after the interrupt has reached the coordinator, a task that is     *)
(* still queued is never started.                                           *)
C26_NoTaskStartsAfterInterrupt ==
    [][run.pc = "interrupted" =>
          \A t \in DOMAIN tasks : tasks[t].pc = "queued" => tasks'[t].pc = "queued"]_vars

(* C27: a call in which the connection to the terminal or the creation of   *)
(* the schema fails returns False, starts no symbol task, fetches nothing   *)
(* and leaves price_data with the rows it had when the call began.          *)
C27_FatalFailuresStartNothing ==
    run.outcome \in Fatal =>
       /\ run.pc = "closed"
       /\ run.result = "false"
       /\ tasks = <<>>
       /\ Len(conn.price_data) = run.rows0

\* A second call fails on the schema after a first call that stored bars
C27_Witness ==
    /\ run.n = 2
    /\ run.outcome = "schema_fails"
    /\ run.pc = "closed"
    /\ run.rows0 > 0

\* The attempt ended in the exception handler of lines 364-372
Raised(r) == r.fault = "fetch_exception" \/ (Len(r.rates) > 0 /\ ~HasTimeColumn(r.rates))

RECURSIVE SumRaised(_)
SumRaised(n) ==
    IF n = 0 THEN 0
    ELSE Cardinality({i \in DOMAIN tasks[n].results : Raised(tasks[n].results[i])})
         + SumRaised(n - 1)

(* C28: the statistics a call of build_database reports are those of that   *)
(* call alone: when it has returned True, symbols_processed, the lengths of *)
(* symbols_completed and symbols_failed, total_bars_downloaded and errors   *)
(* count the tasks, the saved bars and the exceptions of this call.         *)
C28_StatisticsOfThisRunOnly ==
    (run.pc = "closed" /\ run.result = "true") =>
       /\ stats.symbols_processed = Len(run.symbols)
       /\ Len(stats.symbols_completed) + Len(stats.symbols_failed) = Len(run.symbols)
       /\ stats.total_bars_downloaded = SumTasks(Len(tasks))
       /\ stats.errors = SumRaised(Len(tasks))


---------------------------------------------------------------------------
(* Claims on the error count of a run with a fixed source (SpecStub) *)

(* C29: at the end of a run stats['errors'] counts every timeframe attempt  *)
(* that failed (empty response, exception of the fetch, all rows rejected), *)
(* and no task raised out of download_symbol_data.                          *)
C29_FailedAttemptsAreCounted ==
    run.pc = "closed" =>
       /\ stats.errors =
             Cardinality({n \in DOMAIN tasks[1].results :
                            FailedAttempt(tasks[1].symbol, tasks[1].results[n])})
       /\ ~tasks[1].raised

---------------------------------------------------------------------------
(* Claims on the snapshots of symbol_info (SpecSnapshots) *)

SymbolRowsOf(symbol) == {r \in conn.symbol_info : r.symbol = symbol}

(* C30: after any sequence of save_symbols_info calls symbol_info holds at  *)
(* most one row per symbol, and that row is the row of the last snapshot    *)
(* saved for the symbol: no field of an older row survives.                 *)
C30_OneRowOfLatestSnapshot ==
    \A s \in SnapshotNames :
       /\ Cardinality(SymbolRowsOf(s)) <= 1
       /\ SymbolRowsOf(s) = IF last[s].seen
                            THEN {SymbolRow([name |-> s, digits |-> last[s].digits])}
                            ELSE {}

\* EURUSD was saved over a row with other digits, and last from a snapshot
\* without digits
C30_Witness ==
    /\ last[EURUSD].replaced
    /\ last[EURUSD].digits = Absent
    /\ SymbolRowsOf(EURUSD) = {[symbol |-> EURUSD, category |-> "FOREX", digits |-> 0]}
    /\ SymbolRowsOf(US30) # {}


---------------------------------------------------------------------------
(* Claims on what a call that returns 0 leaves behind (Spec) *)

(* C31: when save_price_data has returned 0, price_data is as it was before *)
(* the call, and the call has left no row pending in the transaction that a *)
(* later commit on the connection would make permanent.                     *)
C31_ZeroMeansNothingWritten ==
    (Finished /\ ~last.f.raised /\ last.f.ret = 0) =>
        /\ conn.price_data = last.before.price_data
        /\ Len(conn.price_data) = conn.committed


---------------------------------------------------------------------------
(* Claims on cleanup and the symbol tasks (SpecBuild) *)

(* C32: once cleanup has been called in a call of build_database, or the    *)
(* connection is closed or the terminal shut down, no symbol task of the    *)
(* call is queued or running: cleanup starts after every submitted task has *)
(* finished, on the normal path and when the coordinator is interrupted.    *)
C32_NoCleanupWhileTasksRun ==
    (run.cleanups > 0 \/ run.connection = "closed") =>
        \A t \in DOMAIN tasks : tasks[t].pc \in {"done", "collected"}


---------------------------------------------------------------------------
(* Claims on the termination of a run (SpecLive) *)

(* C33: in a run over finitely many symbols and timeframes whose source and *)
(* store calls all return, with a value or an exception, eventually every   *)
(* symbol task has completed and been counted in symbols_processed, and     *)
(* build_database has returned after cleanup.                               *)
C33_RunTerminates ==
    <>(/\ run.pc = "closed"
       /\ run.result = "true"
       /\ run.cleanups >= 1
       /\ \A t \in DOMAIN tasks : tasks[t].pc = "collected"
       /\ stats.symbols_processed = Len(run.symbols))

\* The run has ended after an exception of the fetch in one task and a write
\* the backend refused in the other, with both workers at work
C33_Witness ==
    /\ run.pc = "closed"
    /\ run.max_workers = 2
    /\ stats.symbols_processed = 2
    /\ Len(tasks[1].results) = 1
    /\ tasks[1].results[1].fault = "fetch_exception"
    /\ Len(tasks[2].results) = 1
    /\ tasks[2].results[1].fault = "write_failure"
    /\ Len(tasks[2].results[1].rates) = 3
    /\ tasks[2].results[1].bars_saved = 0


---------------------------------------------------------------------------
(* Claims on the stored volume (SpecRow) *)

(* C34: every row of price_data has volume equal to tick_volume, and both   *)
(* are what the raw row's tick_volume gives, 0 when it is missing or        *)
(* unparseable, whatever the raw row's volume field holds.                  *)
C34_VolumeIsTickVolume ==
    \A j \in 1..Len(conn.price_data) :
       LET stored == conn.price_data[j] IN
       /\ stored.volume = stored.tick_volume
       /\ Finished =>
             \A i \in DOMAIN last.f.df :
                LET row == last.f.df[i] IN
                row.time = stored.time =>
                   stored.volume = IF MissingOrUnparseable(row.tick_volume)
                                   THEN Num(0) ELSE row.tick_volume

\* A row with volume 9 and tick_volume 7 is stored with volume 7
C34_Witness ==
    /\ Finished
    /\ Len(conn.price_data) = 1
    /\ conn.committed = 1
    /\ last.f.df[1].volume = Num(9)
    /\ last.f.df[1].tick_volume = Num(7)
    /\ conn.price_data[1].volume = Num(7)

====
